---- MODULE Spec2Model ----
(***************************************************************************)
(* Model of src/src/app/page.tsx: the incident filter of the Home          *)
(* component (parseMDYToUTCDate, filteredIncidents, handleCategoryChange   *)
(* and the filter controls), the category classifier                       *)
(* (getCategorySeverityLevel, assignColorByCategory), the derived          *)
(* categories (uniqueCategories, categoryColorMap) and the selection state *)
(* of MapContent (incident and place info windows, search result marker).  *)
(*                                                                         *)
(* Program strings are sequences of one-character strings, so that split,  *)
(* parseInt, toLowerCase and includes are computed character by character. *)
(* A Date is a record [tag, t]: tag "date" with t the time value, tag      *)
(* "invalid" for an Invalid Date (time value NaN), tag "null" for null.    *)
(* Time values are counted in hours since 1970-01-01T00:00Z instead of     *)
(* milliseconds: every time value the program builds is a whole number of  *)
(* hours (midnights, shifted by a whole-hour zone offset).                 *)
(***************************************************************************)
EXTENDS Integers, Sequences, FiniteSets, TLC

VARIABLES allIncidents, tzOffset,
          incidentDateStart, incidentDateEnd, reportDateStart, reportDateEnd,
          selectedCategories,
          parseInput, parseResult,
          classifyInput, classifyResult,
          incidentsToDisplay, selectedIncidentIndex, searchResultPosition,
          selectedPlaceDetails, pinnedPlaceDetails,
          effectPending, clickedIncident

vars == <<allIncidents, tzOffset,
          incidentDateStart, incidentDateEnd, reportDateStart, reportDateEnd,
          selectedCategories, parseInput, parseResult, classifyInput,
          classifyResult,
          incidentsToDisplay, selectedIncidentIndex, searchResultPosition,
          selectedPlaceDetails, pinnedPlaceDetails,
          effectPending, clickedIncident>>

-----------------------------------------------------------------------------
(* Bounds of the model *)

\* longest incident collection
MaxIncidents == 2
\* months 0..MaxMonth, days 0..MaxDay are formatted into M/D/YYYY inputs
MaxMonth == 13
MaxDay == 32
\* category labels are built from 1..MaxWords words
MaxWords == 2
\* longest incident collection the categories are derived from
MaxCategoryIncidents == 3

-----------------------------------------------------------------------------
(* JavaScript strings *)

Digits == <<"0", "1", "2", "3", "4", "5", "6", "7", "8", "9">>

IsDigit(c) == \E i \in 1..10 : Digits[i] = c

DigitVal(c) == (CHOOSE i \in 1..10 : Digits[i] = c) - 1

Upper == <<"A", "B", "C", "D", "E", "F", "G", "H", "I", "J", "K", "L", "M",
           "N", "O", "P", "Q", "R", "S", "T", "U", "V", "W", "X", "Y", "Z">>

Lower == <<"a", "b", "c", "d", "e", "f", "g", "h", "i", "j", "k", "l", "m",
           "n", "o", "p", "q", "r", "s", "t", "u", "v", "w", "x", "y", "z">>

LowerOf == [c \in {Upper[k] : k \in 1..26} |->
                Lower[CHOOSE k \in 1..26 : Upper[k] = c]]

\* String.prototype.toLowerCase
toLowerCase(s) ==
    [i \in 1..Len(s) |-> IF s[i] \in DOMAIN LowerOf THEN LowerOf[s[i]] ELSE s[i]]

\* String.prototype.includes
includes(s, kw) ==
    \E i \in 0..(Len(s) - Len(kw)) : SubSeq(s, i + 1, i + Len(kw)) = kw

\* String.prototype.split with a one-character separator
RECURSIVE split(_, _)
split(s, sep) ==
    IF \A i \in 1..Len(s) : s[i] # sep
    THEN <<s>>
    ELSE LET k == CHOOSE i \in 1..Len(s) :
                     s[i] = sep /\ \A j \in 1..(i - 1) : s[j] # sep
         IN  <<SubSeq(s, 1, k - 1)>> \o split(SubSeq(s, k + 1, Len(s)), sep)

\* the value of a run of decimal digits
RECURSIVE DigitsValue(_)
DigitsValue(ds) ==
    IF ds = <<>> THEN 0
    ELSE 10 * DigitsValue(SubSeq(ds, 1, Len(ds) - 1)) + DigitVal(ds[Len(ds)])

NaN == [nan |-> TRUE, v |-> 0]

Num(n) == [nan |-> FALSE, v |-> n]

\* parseInt(s, 10): leading white space is skipped, one sign is accepted, the
\* longest prefix of digits is read and whatever follows it is ignored; NaN
\* when there is no digit to read.
parseInt(s) ==
    LET ws == CHOOSE k \in 0..Len(s) :
                  /\ \A j \in 1..k : s[j] = " "
                  /\ (k = Len(s) \/ s[k + 1] # " ")
        t  == SubSeq(s, ws + 1, Len(s))
        signed == t # <<>> /\ t[1] \in {"+", "-"}
        u  == IF signed THEN Tail(t) ELSE t
        n  == CHOOSE k \in 0..Len(u) :
                  /\ \A j \in 1..k : IsDigit(u[j])
                  /\ (k = Len(u) \/ ~IsDigit(u[k + 1]))
        mag == DigitsValue(SubSeq(u, 1, n))
    IN  IF n = 0 THEN NaN
        ELSE Num(IF signed /\ t[1] = "-" THEN 0 - mag ELSE mag)

-----------------------------------------------------------------------------
(* JavaScript dates (ECMA-262, Date objects), in hours *)

Null == [tag |-> "null", t |-> 0]

InvalidDate == [tag |-> "invalid", t |-> 0]

MkDate(h) == [tag |-> "date", t |-> h]

IsDate(d) == d.tag = "date"

\* DayFromYear(y): the day number of January 1 of year y
DayFromYear(y) ==
    365 * (y - 1970) + ((y - 1969) \div 4) - ((y - 1901) \div 100)
        + ((y - 1601) \div 400)

InLeapYear(y) == (y % 4 = 0 /\ y % 100 # 0) \/ y % 400 = 0

\* the day within the year on which month m (0-based) starts
MonthStart(m, leap) ==
    LET base == <<0, 31, 59, 90, 120, 151, 181, 212, 243, 273, 304, 334>>
    IN  base[m + 1] + (IF leap /\ m >= 2 THEN 1 ELSE 0)

\* MakeDay(year, month, date): month is 0-based and may overflow into the
\* next years; date may be any integer (it is added as a count of days).
MakeDay(year, month, date) ==
    LET ym == year + (month \div 12)
        mn == month % 12
    IN  DayFromYear(ym) + MonthStart(mn, InLeapYear(ym)) + date - 1

\* YearFromTime, MonthFromTime, DateFromTime on a day number
YearFromDay(day) ==
    LET approx == 1970 + (day \div 365)
    IN  CHOOSE y \in (approx - 2)..(approx + 2) :
            DayFromYear(y) <= day /\ day < DayFromYear(y + 1)

\* the month (0-based) holding day inYear (0-based) of a year
MonthOfYearDay(inYear, leap) ==
    CHOOSE m \in 0..11 :
        /\ MonthStart(m, leap) <= inYear
        /\ (m = 11 \/ inYear < MonthStart(m + 1, leap))

MonthFromDay(day) ==
    LET y == YearFromDay(day)
    IN  MonthOfYearDay(day - DayFromYear(y), InLeapYear(y))

DateFromDay(day) ==
    LET y == YearFromDay(day)
        inYear == day - DayFromYear(y)
    IN  inYear - MonthStart(MonthOfYearDay(inYear, InLeapYear(y)), InLeapYear(y)) + 1

\* Date.UTC(year, month, day): years 0..99 mean 1900..1999
DateUTC(year, month, day) ==
    MkDate(24 * MakeDay(IF year \in 0..99 THEN 1900 + year ELSE year, month, day))

getTime(d) == d.t

getUTCFullYear(d) == YearFromDay(d.t \div 24)

getUTCMonth(d) == MonthFromDay(d.t \div 24)

getUTCDate(d) == DateFromDay(d.t \div 24)

\* the number of days of month m (0-based) of year y
DaysInMonth(m, y) ==
    IF m = 11 THEN 31
    ELSE MonthStart(m + 1, InLeapYear(y)) - MonthStart(m, InLeapYear(y))

\* The operators below that read the clock's zone take the zone offset tz
\* (hours east of UTC) as their last argument.

\* new Date(year, monthIndex, day): the components are local time
NewDateLocal(year, monthIndex, day, tz) ==
    MkDate(24 * MakeDay(IF year \in 0..99 THEN 1900 + year ELSE year,
                        monthIndex, day) - tz)

\* Date.prototype.setHours(0, 0, 0, 0): midnight of the date's local day; an
\* Invalid Date stays invalid
setHours0(d, tz) ==
    IF IsDate(d) THEN MkDate(24 * ((d.t + tz) \div 24) - tz)
    ELSE InvalidDate

\* the calendar day of a date in local time, as <<year, month, day>>
LocalYMD(d, tz) ==
    LET day == (d.t + tz) \div 24
    IN  <<YearFromDay(day), MonthFromDay(day) + 1, DateFromDay(day)>>

monthNames ==
    << <<"j","a","n","u","a","r","y">>, <<"f","e","b","r","u","a","r","y">>,
       <<"m","a","r","c","h">>, <<"a","p","r","i","l">>, <<"m","a","y">>,
       <<"j","u","n","e">>, <<"j","u","l","y">>, <<"a","u","g","u","s","t">>,
       <<"s","e","p","t","e","m","b","e","r">>, <<"o","c","t","o","b","e","r">>,
       <<"n","o","v","e","m","b","e","r">>, <<"d","e","c","e","m","b","e","r">> >>

\* Array.prototype.indexOf on monthNames, -1 when absent
monthIndexOf(name) ==
    IF \E i \in 1..12 : monthNames[i] = name
    THEN (CHOOSE i \in 1..12 : monthNames[i] = name) - 1
    ELSE -1

AllDigits(s) == s # <<>> /\ \A i \in 1..Len(s) : IsDigit(s[i])

\* "YYYY-MM-DD" of the ECMAScript date-time string format
IsIsoDate(s) ==
    /\ Len(s) = 10
    /\ s[5] = "-" /\ s[8] = "-"
    /\ AllDigits(SubSeq(s, 1, 4)) /\ AllDigits(SubSeq(s, 6, 7))
    /\ AllDigits(SubSeq(s, 9, 10))

IsoDay(s) ==
    LET y == DigitsValue(SubSeq(s, 1, 4))
        m == DigitsValue(SubSeq(s, 6, 7))
        d == DigitsValue(SubSeq(s, 9, 10))
    IN  IF m \in 1..12 /\ d >= 1 /\ d <= DaysInMonth(m - 1, y)
        THEN MkDate(24 * MakeDay(y, m - 1, d))
        ELSE InvalidDate

MidnightZ == <<"T", "0", "0", ":", "0", "0", ":", "0", "0", "Z">>

\* "Month D, YYYY", which every engine reads as local time
IsLongDate(s) ==
    LET tok == split(s, " ")
    IN  /\ Len(tok) = 3
        /\ monthIndexOf(toLowerCase(tok[1])) > -1
        /\ Len(tok[2]) >= 2 /\ tok[2][Len(tok[2])] = ","
        /\ AllDigits(SubSeq(tok[2], 1, Len(tok[2]) - 1))
        /\ Len(tok[3]) = 4 /\ AllDigits(tok[3])

LongDay(s, tz) ==
    LET tok == split(s, " ")
        d == DigitsValue(SubSeq(tok[2], 1, Len(tok[2]) - 1))
    IN  IF d \in 1..31
        THEN NewDateLocal(DigitsValue(tok[3]), monthIndexOf(toLowerCase(tok[1])),
                          d, tz)
        ELSE InvalidDate

\* new Date(string), for the three shapes of string the program hands it: an
\* ISO date (UTC midnight), an ISO date followed by T00:00:00Z (UTC midnight)
\* and a long date (local midnight).  An ISO string with an illegal element
\* value is an Invalid Date (ECMA-262, Date.parse); any other string is an
\* Invalid Date.
NewDate(s, tz) ==
    IF IsIsoDate(s) THEN IsoDay(s)
    ELSE IF Len(s) = 20 /\ IsIsoDate(SubSeq(s, 1, 10)) /\ SubSeq(s, 11, 20) = MidnightZ
    THEN IsoDay(SubSeq(s, 1, 10))
    ELSE IF IsLongDate(s) THEN LongDay(s, tz)
    ELSE InvalidDate

-----------------------------------------------------------------------------
(* Home: parseMDYToUTCDate *)

\* mutant: the components are not read back from the constructed date
parseMDYToUTCDate_NoReadBack(dateString) ==
    IF dateString = <<>> THEN Null
    ELSE LET parts == split(dateString, "/")
         IN  IF Len(parts) # 3 THEN Null
             ELSE LET month == parseInt(parts[1])
                      day   == parseInt(parts[2])
                      year  == parseInt(parts[3])
                  IN  IF \/ month.nan \/ day.nan \/ year.nan
                         \/ month.v < 1 \/ month.v > 12
                         \/ day.v < 1 \/ day.v > 31
                         \/ year.v < 1900 \/ year.v > 3000
                      THEN Null
                      ELSE DateUTC(year.v, month.v - 1, day.v)


parseMDYToUTCDate(dateString) ==
    IF dateString = <<>> THEN Null
    ELSE LET parts == split(dateString, "/")
         IN  IF Len(parts) # 3 THEN Null
             ELSE LET month == parseInt(parts[1])
                      day   == parseInt(parts[2])
                      year  == parseInt(parts[3])
                  IN  IF \/ month.nan \/ day.nan \/ year.nan
                         \/ month.v < 1 \/ month.v > 12
                         \/ day.v < 1 \/ day.v > 31
                         \/ year.v < 1900 \/ year.v > 3000
                      THEN Null
                      ELSE LET utcDate == DateUTC(year.v, month.v - 1, day.v)
                           IN  IF \/ getUTCFullYear(utcDate) # year.v
                                  \/ getUTCMonth(utcDate) # month.v - 1
                                  \/ getUTCDate(utcDate) # day.v
                               THEN Null
                               ELSE utcDate

-----------------------------------------------------------------------------
(* Inputs *)

\* the records incidents.json may hold; an absent optional field is <<>>
IncidentPool == {
    [case_number |-> <<"2","5","-","0","0","0","1">>,
     date |-> <<"1","/","1","5","/","2","0","2","5">>,
     offense_category |-> <<"V","i","o","l","e","n","t"," ","C","r","i","m","e">>,
     police_record_date |-> <<>>,
     police_record_date_str |-> <<"a","p","r","i","l","-","0","7","-","2","0","2","5">>],
    [case_number |-> <<"2","5","-","0","0","0","2">>,
     date |-> <<"3","/","1","/","2","0","2","5">>,
     offense_category |-> <<"T","h","e","f","t">>,
     police_record_date |-> <<"A","p","r","i","l"," ","8",","," ","2","0","2","5">>,
     police_record_date_str |-> <<"a","p","r","i","l","-","0","7","-","2","0","2","5">>],
    [case_number |-> <<"2","5","-","0","0","0","3">>,
     date |-> <<"2","/","1","/","2","0","2","5">>,
     offense_category |-> <<>>,
     police_record_date |-> <<"n","/","a">>,
     police_record_date_str |-> <<"f","e","b","r","u","a","r","y","-","3","0","-","2","0","2","5">>],
    [case_number |-> <<"2","5","-","0","0","0","4">>,
     date |-> <<"2","/","3","0","/","2","0","2","5">>,
     offense_category |-> <<"T","r","a","f","f","i","c"," ","V","i","o","l","a","t","i","o","n">>,
     police_record_date |-> <<>>,
     police_record_date_str |-> <<>>] }

\* incidents that differ in their category alone: labels of every severity,
\* labels with keywords of two tiers, labels in lower and in upper case, and
\* a record without a category
CategoryIncidents == {
    [case_number |-> <<"2","5","-","0","1","0","1">>,
     date |-> <<"1","/","1","5","/","2","0","2","5">>,
     offense_category |-> <<"V","i","o","l","e","n","t"," ","C","r","i","m","e">>,
     police_record_date |-> <<>>,
     police_record_date_str |-> <<"a","p","r","i","l","-","0","7","-","2","0","2","5">>],
    [case_number |-> <<"2","5","-","0","1","0","2">>,
     date |-> <<"1","/","1","5","/","2","0","2","5">>,
     offense_category |-> <<"T","r","a","f","f","i","c"," ","V","i","o","l","a","t","i","o","n">>,
     police_record_date |-> <<>>,
     police_record_date_str |-> <<"a","p","r","i","l","-","0","7","-","2","0","2","5">>],
    [case_number |-> <<"2","5","-","0","1","0","3">>,
     date |-> <<"1","/","1","5","/","2","0","2","5">>,
     offense_category |-> <<"L","o","s","t"," ","P","r","o","p","e","r","t","y">>,
     police_record_date |-> <<>>,
     police_record_date_str |-> <<"a","p","r","i","l","-","0","7","-","2","0","2","5">>],
    [case_number |-> <<"2","5","-","0","1","0","4">>,
     date |-> <<"1","/","1","5","/","2","0","2","5">>,
     offense_category |-> <<"a","s","s","a","u","l","t">>,
     police_record_date |-> <<>>,
     police_record_date_str |-> <<"a","p","r","i","l","-","0","7","-","2","0","2","5">>],
    [case_number |-> <<"2","5","-","0","1","0","5">>,
     date |-> <<"1","/","1","5","/","2","0","2","5">>,
     offense_category |-> <<"B","u","r","g","l","a","r","y">>,
     police_record_date |-> <<>>,
     police_record_date_str |-> <<"a","p","r","i","l","-","0","7","-","2","0","2","5">>],
    [case_number |-> <<"2","5","-","0","1","0","6">>,
     date |-> <<"1","/","1","5","/","2","0","2","5">>,
     offense_category |-> <<"T","h","e","f","t">>,
     police_record_date |-> <<>>,
     police_record_date_str |-> <<"a","p","r","i","l","-","0","7","-","2","0","2","5">>],
    [case_number |-> <<"2","5","-","0","1","0","7">>,
     date |-> <<"1","/","1","5","/","2","0","2","5">>,
     offense_category |-> <<"O","t","h","e","r">>,
     police_record_date |-> <<>>,
     police_record_date_str |-> <<"a","p","r","i","l","-","0","7","-","2","0","2","5">>],
    [case_number |-> <<"2","5","-","0","1","0","8">>,
     date |-> <<"1","/","1","5","/","2","0","2","5">>,
     offense_category |-> <<"N","o","i","s","e">>,
     police_record_date |-> <<>>,
     police_record_date_str |-> <<"a","p","r","i","l","-","0","7","-","2","0","2","5">>],
    [case_number |-> <<"2","5","-","0","1","0","9">>,
     date |-> <<"1","/","1","5","/","2","0","2","5">>,
     offense_category |-> <<>>,
     police_record_date |-> <<>>,
     police_record_date_str |-> <<"a","p","r","i","l","-","0","7","-","2","0","2","5">>] }

\* every record of the model
AllIncidentRecords == IncidentPool \cup CategoryIncidents

\* all sequences over S of length at most n
RECURSIVE SeqsUpTo(_, _)
SeqsUpTo(S, n) ==
    IF n = 0 THEN {<<>>}
    ELSE LET shorter == SeqsUpTo(S, n - 1)
         IN  shorter \cup {Append(q, x) : q \in shorter, x \in S}

\* the zone offsets of the browser, in hours east of UTC; the offset is fixed
\* for a run (no daylight-saving change between the dates compared)
TimeZoneOffsets == {-7, 0, 9}

\* what the incident date inputs may hold: empty, a calendar date, or text
\* typed where the date input falls back to a text field
IncidentDateInputs == {
    <<>>, <<"2","0","2","5","-","0","2","-","0","1">>, <<"t","o","d","a","y">> }

\* what the report date inputs may hold
ReportDateInputs == {
    <<>>, <<"2","0","2","5","-","0","4","-","0","7">>, <<"t","o","d","a","y">> }

-----------------------------------------------------------------------------
(* Home: filteredIncidents *)

(***************************************************************************)
(* The callback of allIncidents.filter reads the four date bounds, the     *)
(* selected categories and the clock's zone.  Each predicate group is an   *)
(* operator of the incident and of what it reads, and, as the useMemo of   *)
(* the source does, its results are computed once per input (the tables    *)
(* passesIncidentDate and passesReportDate) rather than once per state.    *)
(***************************************************************************)

\* mutant: the start bound is exclusive
IncidentDateFilter_ExclusiveStart(incident, start, end, tz) ==
    IF start # <<>> \/ end # <<>>
    THEN LET incidentDateUTC == parseMDYToUTCDate(incident.date)
             startDateUTC == NewDate(start \o MidnightZ, tz)
             endDateUTC == NewDate(end \o MidnightZ, tz)
         IN  /\ incidentDateUTC # Null
             /\ start # <<>> =>
                    /\ IsDate(startDateUTC)
                    /\ ~(getTime(incidentDateUTC) <= getTime(startDateUTC))
             /\ end # <<>> =>
                    /\ IsDate(endDateUTC)
                    /\ ~(getTime(incidentDateUTC) > getTime(endDateUTC))
    ELSE TRUE

\* mutant: an incident whose date does not parse skips the date filter
IncidentDateFilter_UnparsedPasses(incident, start, end, tz) ==
    IF start # <<>> \/ end # <<>>
    THEN LET incidentDateUTC == parseMDYToUTCDate(incident.date)
             startDateUTC == NewDate(start \o MidnightZ, tz)
             endDateUTC == NewDate(end \o MidnightZ, tz)
         IN  incidentDateUTC # Null =>
               /\ start # <<>> =>
                      /\ IsDate(startDateUTC)
                      /\ ~(getTime(incidentDateUTC) < getTime(startDateUTC))
               /\ end # <<>> =>
                      /\ IsDate(endDateUTC)
                      /\ ~(getTime(incidentDateUTC) > getTime(endDateUTC))
    ELSE TRUE

\* incident date filter: TRUE when the incident passes it
IncidentDateFilter(incident, start, end, tz) ==
    IF start # <<>> \/ end # <<>>
    THEN LET incidentDateUTC == parseMDYToUTCDate(incident.date)
             startDateUTC == NewDate(start \o MidnightZ, tz)
             endDateUTC == NewDate(end \o MidnightZ, tz)
         IN  /\ incidentDateUTC # Null
             /\ start # <<>> =>
                    /\ IsDate(startDateUTC)
                    /\ ~(getTime(incidentDateUTC) < getTime(startDateUTC))
             /\ end # <<>> =>
                    /\ IsDate(endDateUTC)
                    /\ ~(getTime(incidentDateUTC) > getTime(endDateUTC))
    ELSE TRUE

\* the heuristic parser of police_record_date_str ("monthname-dd-yyyy"); Null
\* when canParseReportDate stays false
SlugReportDate(police_record_date_str, tz) ==
    LET parts == split(police_record_date_str, "-")
    IN  IF Len(parts) # 3 THEN Null
        ELSE LET monthIndex == monthIndexOf(toLowerCase(parts[1]))
                 day  == parseInt(parts[2])
                 year == parseInt(parts[3])
             IN  IF monthIndex > -1 /\ ~day.nan /\ ~year.nan
                 THEN setHours0(NewDateLocal(year.v, monthIndex, day.v, tz), tz)
                 ELSE Null

\* mutant: the slug is tried before police_record_date
ResolveReportDate_SlugFirst(incident, tz) ==
    LET reportDateStr == incident.police_record_date
        reportDate == NewDate(reportDateStr, tz)
        fromSlug == IF incident.police_record_date_str # <<>>
                    THEN SlugReportDate(incident.police_record_date_str, tz)
                    ELSE Null
    IN  IF fromSlug # Null THEN fromSlug
        ELSE IF reportDateStr # <<>> /\ IsDate(reportDate)
        THEN setHours0(reportDate, tz)
        ELSE Null

\* the report date of an incident: police_record_date when it exists and
\* parses, else police_record_date_str; Null when canParseReportDate is false
ResolveReportDate(incident, tz) ==
    LET reportDateStr == incident.police_record_date
        reportDate == NewDate(reportDateStr, tz)
    IN  IF reportDateStr # <<>> /\ IsDate(reportDate)
        THEN setHours0(reportDate, tz)
        ELSE IF incident.police_record_date_str # <<>>
        THEN SlugReportDate(incident.police_record_date_str, tz)
        ELSE Null

\* a < b on two Date objects: false when either time value is NaN
DateLess(a, b) == IsDate(a) /\ IsDate(b) /\ a.t < b.t

\* report date filter: TRUE when the incident passes it
ReportDateFilter(incident, start, end, tz) ==
    IF start # <<>> \/ end # <<>>
    THEN LET reportDate == ResolveReportDate(incident, tz)
             startDate == setHours0(NewDate(start, tz), tz)
             endDate == setHours0(NewDate(end, tz), tz)
         IN  /\ reportDate # Null
             /\ start # <<>> => ~DateLess(reportDate, startDate)
             /\ end # <<>> => ~DateLess(endDate, reportDate)
    ELSE TRUE

passesIncidentDate ==
    [tz \in TimeZoneOffsets |->
        [incident \in AllIncidentRecords |->
            [start \in IncidentDateInputs |->
                [end \in IncidentDateInputs |->
                    IncidentDateFilter(incident, start, end, tz)]]]]

passesReportDate ==
    [tz \in TimeZoneOffsets |->
        [incident \in AllIncidentRecords |->
            [start \in ReportDateInputs |->
                [end \in ReportDateInputs |->
                    ReportDateFilter(incident, start, end, tz)]]]]

\* Array.prototype.includes
arrayIncludes(arr, x) == \E i \in 1..Len(arr) : arr[i] = x

\* mutant: an empty selection is not told apart from a selection without
\* the incident's category
CategoryFilter_NoLengthCheck(incident, selected) ==
    arrayIncludes(selected, incident.offense_category)

\* offense category filter: TRUE when the incident passes it
CategoryFilter(incident, selected) ==
    ~(Len(selected) > 0 /\ ~arrayIncludes(selected, incident.offense_category))

PassesIncidentDate(incident) ==
    passesIncidentDate[tzOffset][incident][incidentDateStart][incidentDateEnd]

PassesReportDate(incident) ==
    passesReportDate[tzOffset][incident][reportDateStart][reportDateEnd]

\* the callback of allIncidents.filter
KeepIncident(incident) ==
    /\ PassesIncidentDate(incident)
    /\ PassesReportDate(incident)
    /\ CategoryFilter(incident, selectedCategories)

\* mutant: the first incident of the array is never looked at
filter_SkipsFirst(incidents) ==
    SelectSeq(SubSeq(incidents, 2, Len(incidents)), KeepIncident)

\* Array.prototype.filter with the callback, applied to an array of incidents
filter(incidents) == SelectSeq(incidents, KeepIncident)

filteredIncidents == filter(allIncidents)

\* the Set of non-empty categories that uniqueCategories is built from
categories ==
    {allIncidents[i].offense_category : i \in
        {j \in 1..Len(allIncidents) : allIncidents[j].offense_category # <<>>}}

-----------------------------------------------------------------------------
(* The category classifier *)

severityOrder == <<"High", "Medium", "Low", "Informational/Other", "Default">>

\* mutant: the traffic keyword is missing from the Low condition
getCategorySeverityLevel_NoTraffic(category) ==
    LET lowerCaseCategory == toLowerCase(category)
    IN  IF includes(lowerCaseCategory, <<"v","i","o","l","e","n","t">>)
               \/ includes(lowerCaseCategory, <<"r","o","b","b","e","r","y">>)
               \/ includes(lowerCaseCategory, <<"b","u","r","g","l","a","r","y">>)
               \/ includes(lowerCaseCategory, <<"w","e","a","p","o","n">>)
               \/ includes(lowerCaseCategory, <<"a","s","s","a","u","l","t">>)
        THEN "High"
        ELSE IF includes(lowerCaseCategory, <<"t","h","e","f","t">>)
               \/ includes(lowerCaseCategory, <<"f","r","a","u","d">>)
               \/ includes(lowerCaseCategory, <<"v","e","h","i","c","l","e">>)
               \/ includes(lowerCaseCategory, <<"s","t","o","l","e","n">>)
               \/ includes(lowerCaseCategory, <<"d","u","i">>)
               \/ includes(lowerCaseCategory, <<"n","a","r","c","o","t","i","c">>)
        THEN "Medium"
        ELSE IF includes(lowerCaseCategory, <<"p","r","o","p","e","r","t","y">>)
               \/ includes(lowerCaseCategory, <<"v","a","n","d","a","l","i","s","m">>)
               \/ includes(lowerCaseCategory, <<"d","i","s","t","u","r","b","a","n","c","e">>)
               \/ includes(lowerCaseCategory, <<"t","r","e","s","p","a","s","s">>)
               \/ includes(lowerCaseCategory, <<"p","u","b","l","i","c"," ","o","r","d","e","r">>)
        THEN "Low"
        ELSE IF includes(lowerCaseCategory, <<"a","d","m","i","n">>)
               \/ includes(lowerCaseCategory, <<"o","t","h","e","r">>)
               \/ includes(lowerCaseCategory, <<"w","a","r","r","a","n","t">>)
               \/ includes(lowerCaseCategory, <<"a","r","r","e","s","t">>)
               \/ includes(lowerCaseCategory, <<"l","o","s","t">>)
               \/ includes(lowerCaseCategory, <<"f","o","u","n","d">>)
               \/ includes(lowerCaseCategory, <<"s","u","s","p","i","c","i","o","u","s">>)
               \/ includes(lowerCaseCategory, <<"i","n","f","o">>)
               \/ includes(lowerCaseCategory, <<"m","i","s","c">>)
               \/ includes(lowerCaseCategory, <<"w","e","l","f","a","r","e">>)
        THEN "Informational/Other"
        ELSE "Default"

getCategorySeverityLevel(category) ==
    LET lowerCaseCategory == toLowerCase(category)
    IN  IF includes(lowerCaseCategory, <<"v","i","o","l","e","n","t">>)
               \/ includes(lowerCaseCategory, <<"r","o","b","b","e","r","y">>)
               \/ includes(lowerCaseCategory, <<"b","u","r","g","l","a","r","y">>)
               \/ includes(lowerCaseCategory, <<"w","e","a","p","o","n">>)
               \/ includes(lowerCaseCategory, <<"a","s","s","a","u","l","t">>)
        THEN "High"
        ELSE IF includes(lowerCaseCategory, <<"t","h","e","f","t">>)
               \/ includes(lowerCaseCategory, <<"f","r","a","u","d">>)
               \/ includes(lowerCaseCategory, <<"v","e","h","i","c","l","e">>)
               \/ includes(lowerCaseCategory, <<"s","t","o","l","e","n">>)
               \/ includes(lowerCaseCategory, <<"d","u","i">>)
               \/ includes(lowerCaseCategory, <<"n","a","r","c","o","t","i","c">>)
        THEN "Medium"
        ELSE IF includes(lowerCaseCategory, <<"p","r","o","p","e","r","t","y">>)
               \/ includes(lowerCaseCategory, <<"v","a","n","d","a","l","i","s","m">>)
               \/ includes(lowerCaseCategory, <<"t","r","a","f","f","i","c">>)
               \/ includes(lowerCaseCategory, <<"d","i","s","t","u","r","b","a","n","c","e">>)
               \/ includes(lowerCaseCategory, <<"t","r","e","s","p","a","s","s">>)
               \/ includes(lowerCaseCategory, <<"p","u","b","l","i","c"," ","o","r","d","e","r">>)
        THEN "Low"
        ELSE IF includes(lowerCaseCategory, <<"a","d","m","i","n">>)
               \/ includes(lowerCaseCategory, <<"o","t","h","e","r">>)
               \/ includes(lowerCaseCategory, <<"w","a","r","r","a","n","t">>)
               \/ includes(lowerCaseCategory, <<"a","r","r","e","s","t">>)
               \/ includes(lowerCaseCategory, <<"l","o","s","t">>)
               \/ includes(lowerCaseCategory, <<"f","o","u","n","d">>)
               \/ includes(lowerCaseCategory, <<"s","u","s","p","i","c","i","o","u","s">>)
               \/ includes(lowerCaseCategory, <<"i","n","f","o">>)
               \/ includes(lowerCaseCategory, <<"m","i","s","c">>)
               \/ includes(lowerCaseCategory, <<"w","e","l","f","a","r","e">>)
        THEN "Informational/Other"
        ELSE "Default"

\* mutant: the traffic keyword is tested before the property tier
assignColorByCategory_TrafficFirst(category) ==
    LET lowerCaseCategory == toLowerCase(category)
    IN  IF includes(lowerCaseCategory, <<"v","i","o","l","e","n","t">>)
               \/ includes(lowerCaseCategory, <<"r","o","b","b","e","r","y">>)
               \/ includes(lowerCaseCategory, <<"b","u","r","g","l","a","r","y">>)
               \/ includes(lowerCaseCategory, <<"w","e","a","p","o","n">>)
               \/ includes(lowerCaseCategory, <<"a","s","s","a","u","l","t">>)
        THEN "#B91C1C"
        ELSE IF includes(lowerCaseCategory, <<"t","h","e","f","t">>)
               \/ includes(lowerCaseCategory, <<"f","r","a","u","d">>)
               \/ includes(lowerCaseCategory, <<"v","e","h","i","c","l","e">>)
               \/ includes(lowerCaseCategory, <<"s","t","o","l","e","n">>)
               \/ includes(lowerCaseCategory, <<"d","u","i">>)
               \/ includes(lowerCaseCategory, <<"n","a","r","c","o","t","i","c">>)
        THEN "#F59E0B"
        ELSE IF includes(lowerCaseCategory, <<"t","r","a","f","f","i","c">>)
        THEN "#2563EB"
        ELSE IF includes(lowerCaseCategory, <<"p","r","o","p","e","r","t","y">>)
               \/ includes(lowerCaseCategory, <<"v","a","n","d","a","l","i","s","m">>)
               \/ includes(lowerCaseCategory, <<"d","i","s","t","u","r","b","a","n","c","e">>)
               \/ includes(lowerCaseCategory, <<"t","r","e","s","p","a","s","s">>)
               \/ includes(lowerCaseCategory, <<"p","u","b","l","i","c"," ","o","r","d","e","r">>)
        THEN "#EAB308"
        ELSE IF includes(lowerCaseCategory, <<"a","d","m","i","n">>)
               \/ includes(lowerCaseCategory, <<"o","t","h","e","r">>)
               \/ includes(lowerCaseCategory, <<"w","a","r","r","a","n","t">>)
               \/ includes(lowerCaseCategory, <<"a","r","r","e","s","t">>)
               \/ includes(lowerCaseCategory, <<"l","o","s","t">>)
               \/ includes(lowerCaseCategory, <<"f","o","u","n","d">>)
               \/ includes(lowerCaseCategory, <<"s","u","s","p","i","c","i","o","u","s">>)
               \/ includes(lowerCaseCategory, <<"i","n","f","o">>)
               \/ includes(lowerCaseCategory, <<"m","i","s","c">>)
               \/ includes(lowerCaseCategory, <<"w","e","l","f","a","r","e">>)
        THEN "#6B7280"
        ELSE "#9CA3AF"


assignColorByCategory(category) ==
    LET lowerCaseCategory == toLowerCase(category)
    IN  IF includes(lowerCaseCategory, <<"v","i","o","l","e","n","t">>)
               \/ includes(lowerCaseCategory, <<"r","o","b","b","e","r","y">>)
               \/ includes(lowerCaseCategory, <<"b","u","r","g","l","a","r","y">>)
               \/ includes(lowerCaseCategory, <<"w","e","a","p","o","n">>)
               \/ includes(lowerCaseCategory, <<"a","s","s","a","u","l","t">>)
        THEN "#B91C1C"
        ELSE IF includes(lowerCaseCategory, <<"t","h","e","f","t">>)
               \/ includes(lowerCaseCategory, <<"f","r","a","u","d">>)
               \/ includes(lowerCaseCategory, <<"v","e","h","i","c","l","e">>)
               \/ includes(lowerCaseCategory, <<"s","t","o","l","e","n">>)
               \/ includes(lowerCaseCategory, <<"d","u","i">>)
               \/ includes(lowerCaseCategory, <<"n","a","r","c","o","t","i","c">>)
        THEN "#F59E0B"
        ELSE IF includes(lowerCaseCategory, <<"p","r","o","p","e","r","t","y">>)
               \/ includes(lowerCaseCategory, <<"v","a","n","d","a","l","i","s","m">>)
               \/ includes(lowerCaseCategory, <<"d","i","s","t","u","r","b","a","n","c","e">>)
               \/ includes(lowerCaseCategory, <<"t","r","e","s","p","a","s","s">>)
               \/ includes(lowerCaseCategory, <<"p","u","b","l","i","c"," ","o","r","d","e","r">>)
        THEN "#EAB308"
        ELSE IF includes(lowerCaseCategory, <<"t","r","a","f","f","i","c">>)
        THEN "#2563EB"
        ELSE IF includes(lowerCaseCategory, <<"a","d","m","i","n">>)
               \/ includes(lowerCaseCategory, <<"o","t","h","e","r">>)
               \/ includes(lowerCaseCategory, <<"w","a","r","r","a","n","t">>)
               \/ includes(lowerCaseCategory, <<"a","r","r","e","s","t">>)
               \/ includes(lowerCaseCategory, <<"l","o","s","t">>)
               \/ includes(lowerCaseCategory, <<"f","o","u","n","d">>)
               \/ includes(lowerCaseCategory, <<"s","u","s","p","i","c","i","o","u","s">>)
               \/ includes(lowerCaseCategory, <<"i","n","f","o">>)
               \/ includes(lowerCaseCategory, <<"m","i","s","c">>)
               \/ includes(lowerCaseCategory, <<"w","e","l","f","a","r","e">>)
        THEN "#6B7280"
        ELSE "#9CA3AF"

-----------------------------------------------------------------------------
(* Home: uniqueCategories and categoryColorMap *)

\* Array.prototype.indexOf, 0-based, -1 when x is not an element
indexOf(arr, x) ==
    IF \E i \in 1..Len(arr) : arr[i] = x
    THEN (CHOOSE i \in 1..Len(arr) :
              arr[i] = x /\ \A j \in 1..(i - 1) : arr[j] # x) - 1
    ELSE -1

\* the primary collation weight of a character of a label: the space sorts
\* before every letter, and a letter's weight does not depend on its case
CollationWeight(c) ==
    IF c = " " THEN 0
    ELSE CHOOSE k \in 1..26 : Lower[k] = c \/ Upper[k] = c

IsUpperCase(c) == \E k \in 1..26 : Upper[k] = c

\* the order of two strings by primary weights, as -1, 0 or 1
RECURSIVE ComparePrimary(_, _)
ComparePrimary(a, b) ==
    IF a = <<>> /\ b = <<>> THEN 0
    ELSE IF a = <<>> THEN -1
    ELSE IF b = <<>> THEN 1
    ELSE IF CollationWeight(a[1]) < CollationWeight(b[1]) THEN -1
    ELSE IF CollationWeight(a[1]) > CollationWeight(b[1]) THEN 1
    ELSE ComparePrimary(Tail(a), Tail(b))

\* the order of two strings of equal primary weights by case: at the first
\* difference the lower-case letter comes first
RECURSIVE CompareCase(_, _)
CompareCase(a, b) ==
    IF a = <<>> THEN 0
    ELSE IF ~IsUpperCase(a[1]) /\ IsUpperCase(b[1]) THEN -1
    ELSE IF IsUpperCase(a[1]) /\ ~IsUpperCase(b[1]) THEN 1
    ELSE CompareCase(Tail(a), Tail(b))

\* mutant: the strings are compared by their code units, as a < b does
RECURSIVE localeCompare_CodeUnits(_, _)
localeCompare_CodeUnits(a, b) ==
    LET unit(c) == IF c = " " THEN 32
                   ELSE IF IsUpperCase(c) THEN 64 + CollationWeight(c)
                   ELSE 96 + CollationWeight(c)
    IN  IF a = <<>> /\ b = <<>> THEN 0
        ELSE IF a = <<>> THEN -1
        ELSE IF b = <<>> THEN 1
        ELSE IF unit(a[1]) < unit(b[1]) THEN -1
        ELSE IF unit(a[1]) > unit(b[1]) THEN 1
        ELSE localeCompare_CodeUnits(Tail(a), Tail(b))

\* String.prototype.localeCompare in the default collation of an English
\* locale, for strings of letters and spaces
localeCompare(a, b) ==
    IF ComparePrimary(a, b) # 0 THEN ComparePrimary(a, b) ELSE CompareCase(a, b)

\* mutant: categories of the same severity are left in the order found
compareCategories_SeverityOnly(a, b) ==
    LET severityA == getCategorySeverityLevel(a)
        severityB == getCategorySeverityLevel(b)
        indexA == indexOf(severityOrder, severityA)
        indexB == indexOf(severityOrder, severityB)
    IN  indexA - indexB

\* the comparator handed to sort
compareCategories(a, b) ==
    LET severityA == getCategorySeverityLevel(a)
        severityB == getCategorySeverityLevel(b)
        indexA == indexOf(severityOrder, severityA)
        indexB == indexOf(severityOrder, severityB)
    IN  IF indexA # indexB THEN indexA - indexB
        ELSE localeCompare(a, b)

\* the non-empty category labels of the records of the model
CategoryLabels ==
    {incident.offense_category : incident \in AllIncidentRecords} \ {<<>>}

\* the comparator and the color of each label, computed once per label
comparison ==
    [a \in CategoryLabels |-> [b \in CategoryLabels |-> compareCategories(a, b)]]

colorOfCategory == [category \in CategoryLabels |-> assignColorByCategory(category)]

\* mutant: a record's category is added whether it is empty or not
RECURSIVE categoriesOf_KeepsEmpty(_)
categoriesOf_KeepsEmpty(incidents) ==
    IF incidents = <<>> THEN <<>>
    ELSE LET before == categoriesOf_KeepsEmpty(SubSeq(incidents, 1, Len(incidents) - 1))
             incident == incidents[Len(incidents)]
         IN  IF ~arrayIncludes(before, incident.offense_category)
             THEN Append(before, incident.offense_category)
             ELSE before

\* the Set filled by allIncidents.forEach, as Array.from lists it: each
\* non-empty category once, in the order of its first occurrence
RECURSIVE categoriesOf(_)
categoriesOf(incidents) ==
    IF incidents = <<>> THEN <<>>
    ELSE LET before == categoriesOf(SubSeq(incidents, 1, Len(incidents) - 1))
             incident == incidents[Len(incidents)]
         IN  IF incident.offense_category # <<>>
                  /\ ~arrayIncludes(before, incident.offense_category)
             THEN Append(before, incident.offense_category)
             ELSE before

\* x put into the sorted array arr behind every element that does not
\* compare greater than x
RECURSIVE insertSorted(_, _)
insertSorted(arr, x) ==
    IF arr = <<>> THEN <<x>>
    ELSE IF comparison[arr[Len(arr)]][x] > 0
    THEN Append(insertSorted(SubSeq(arr, 1, Len(arr) - 1), x), arr[Len(arr)])
    ELSE Append(arr, x)

\* Array.prototype.sort with the comparator: a stable sort
RECURSIVE sort(_)
sort(arr) ==
    IF arr = <<>> THEN <<>>
    ELSE insertSorted(sort(SubSeq(arr, 1, Len(arr) - 1)), arr[Len(arr)])

\* uniqueCategories as computed from a collection of incidents
uniqueCategoriesOf(incidents) == sort(categoriesOf(incidents))

uniqueCategories == uniqueCategoriesOf(allIncidents)

\* the object filled by uniqueCategories.forEach: map[category] = color
RECURSIVE colorMapOf(_)
colorMapOf(list) ==
    IF list = <<>> THEN <<>>
    ELSE LET map == colorMapOf(SubSeq(list, 1, Len(list) - 1))
             category == list[Len(list)]
         IN  [key \in DOMAIN map \cup {category} |->
                 IF key = category THEN colorOfCategory[category] ELSE map[key]]

categoryColorMap == colorMapOf(uniqueCategories)

\* mutant: the marker takes the map's entry without a default
markerColor_NoDefault(incident, map) ==
    IF incident.offense_category \in DOMAIN map
    THEN map[incident.offense_category]
    ELSE "undefined"

\* categoryColorMap[incident.offense_category] || '#9CA3AF'
markerColor(incident, map) ==
    IF incident.offense_category \in DOMAIN map
         /\ map[incident.offense_category] # ""
    THEN map[incident.offense_category]
    ELSE "#9CA3AF"

\* the incident markers MapContent renders: one per incident to display
incidentMarkers(incidents, map) ==
    [index \in 1..Len(incidents) |->
        [incident |-> incidents[index],
         backgroundColor |-> markerColor(incidents[index], map)]]

-----------------------------------------------------------------------------
(* The filter controls of Home *)

Idle == [tag |-> "idle", t |-> 0]

NotClassified == [severity |-> "", color |-> ""]

\* the state of MapContent: its incidentsToDisplay prop, its four useState
\* cells, whether the effect on [incidentsToDisplay] has still to run, and the
\* incident of the marker clicked last
mapContent == <<incidentsToDisplay, selectedIncidentIndex, searchResultPosition,
                selectedPlaceDetails, pinnedPlaceDetails,
                effectPending, clickedIncident>>

\* MapContent as mounted on an empty list: nothing selected, no search made
InitMapContent ==
    /\ incidentsToDisplay = <<>>
    /\ selectedIncidentIndex = Null
    /\ searchResultPosition = Null
    /\ selectedPlaceDetails = Null
    /\ pinnedPlaceDetails = Null
    /\ effectPending = FALSE
    /\ clickedIncident = Null

Init ==
    /\ allIncidents \in SeqsUpTo(IncidentPool, MaxIncidents)
    /\ tzOffset \in TimeZoneOffsets
    /\ incidentDateStart = <<>>
    /\ incidentDateEnd = <<>>
    /\ reportDateStart = <<>>
    /\ reportDateEnd = <<>>
    /\ selectedCategories = <<>>
    /\ parseInput = <<>>
    /\ parseResult = Idle
    /\ classifyInput = <<>>
    /\ classifyResult = NotClassified
    /\ InitMapContent

probes == <<parseInput, parseResult, classifyInput, classifyResult, mapContent>>

setIncidentDateStart ==
    /\ \E value \in IncidentDateInputs : incidentDateStart' = value
    /\ UNCHANGED <<allIncidents, tzOffset, incidentDateEnd, reportDateStart,
                   reportDateEnd, selectedCategories, probes>>

setIncidentDateEnd ==
    /\ \E value \in IncidentDateInputs : incidentDateEnd' = value
    /\ UNCHANGED <<allIncidents, tzOffset, incidentDateStart, reportDateStart,
                   reportDateEnd, selectedCategories, probes>>

ClearIncidentDates ==
    /\ incidentDateStart' = <<>>
    /\ incidentDateEnd' = <<>>
    /\ UNCHANGED <<allIncidents, tzOffset, reportDateStart, reportDateEnd,
                   selectedCategories, probes>>

setReportDateStart ==
    /\ \E value \in ReportDateInputs : reportDateStart' = value
    /\ UNCHANGED <<allIncidents, tzOffset, incidentDateStart, incidentDateEnd,
                   reportDateEnd, selectedCategories, probes>>

setReportDateEnd ==
    /\ \E value \in ReportDateInputs : reportDateEnd' = value
    /\ UNCHANGED <<allIncidents, tzOffset, incidentDateStart, incidentDateEnd,
                   reportDateStart, selectedCategories, probes>>

ClearReportDates ==
    /\ reportDateStart' = <<>>
    /\ reportDateEnd' = <<>>
    /\ UNCHANGED <<allIncidents, tzOffset, incidentDateStart, incidentDateEnd,
                   selectedCategories, probes>>

\* a checkbox of the category list is toggled: isChecked is the new state of
\* the box, the opposite of the state it is rendered with
handleCategoryChange ==
    /\ \E value \in categories :
         LET isChecked == ~arrayIncludes(selectedCategories, value)
         IN  selectedCategories' =
                 IF isChecked THEN Append(selectedCategories, value)
                 ELSE SelectSeq(selectedCategories, LAMBDA cat : cat # value)
    /\ UNCHANGED <<allIncidents, tzOffset, incidentDateStart, incidentDateEnd,
                   reportDateStart, reportDateEnd, probes>>

ClearSelection ==
    /\ selectedCategories' = <<>>
    /\ UNCHANGED <<allIncidents, tzOffset, incidentDateStart, incidentDateEnd,
                   reportDateStart, reportDateEnd, probes>>

Next ==
    \/ setIncidentDateStart
    \/ setIncidentDateEnd
    \/ ClearIncidentDates
    \/ setReportDateStart
    \/ setReportDateEnd
    \/ ClearReportDates
    \/ handleCategoryChange
    \/ ClearSelection

Spec == Init /\ [][Next]_vars

-----------------------------------------------------------------------------
(* parseMDYToUTCDate on its own *)

\* Number.prototype.toString of a natural number
RECURSIVE FormatNat(_)
FormatNat(n) ==
    IF n < 10 THEN <<Digits[n + 1]>>
    ELSE Append(FormatNat(n \div 10), Digits[(n % 10) + 1])

FormatMDY(m, d, y) ==
    FormatNat(m) \o <<"/">> \o FormatNat(d) \o <<"/">> \o FormatNat(y)

ParseYears == {1899, 1900, 1999, 2000, 2023, 2024, 2025, 2100, 3000, 3001}

\* strings that are not M/D/YYYY, or are so only up to what parseInt ignores
OddDateStrings == {
    <<>>, <<"u","n","k","n","o","w","n">>, <<"1","/","1","5">>,
    <<"1","/","1","5","/","2","0","2","5","/","1">>,
    <<"1","/","/","2","0","2","5">>, <<"a","/","b","/","c">>,
    <<"1","/","1","5","x","/","2","0","2","5">>,
    <<" ","1","/","1","5","/","2","0","2","5">>,
    <<"1","/","1","5","/","2","0","2","5"," ">>,
    <<"+","1","/","1","5","/","2","0","2","5">>,
    <<"-","1","/","1","5","/","2","0","2","5">>,
    <<"0","1","/","0","5","/","2","0","2","5">>,
    <<"1",".","5","/","1","5","/","2","0","2","5">>,
    <<"2","0","2","5","-","0","1","-","1","5">>,
    <<"1","/","1","5","/","2","0","x","5">>,
    <<"1","2","/","3","1","/","9","9">> }

ParseInputs ==
    {FormatMDY(m, d, y) : m \in 0..MaxMonth, d \in 0..MaxDay, y \in ParseYears}
        \cup OddDateStrings

InitParse ==
    /\ allIncidents = <<>>
    /\ tzOffset = 0
    /\ incidentDateStart = <<>>
    /\ incidentDateEnd = <<>>
    /\ reportDateStart = <<>>
    /\ reportDateEnd = <<>>
    /\ selectedCategories = <<>>
    /\ parseInput \in ParseInputs
    /\ parseResult = Idle
    /\ classifyInput = <<>>
    /\ classifyResult = NotClassified
    /\ InitMapContent

CallParse ==
    /\ parseResult = Idle
    /\ parseResult' = parseMDYToUTCDate(parseInput)
    /\ UNCHANGED <<allIncidents, tzOffset, incidentDateStart, incidentDateEnd,
                   reportDateStart, reportDateEnd, selectedCategories,
                   parseInput, classifyInput, classifyResult, mapContent>>

SpecParse == InitParse /\ [][CallParse]_vars

-----------------------------------------------------------------------------
(* The classifier on its own *)

LabelWords == <<
    <<"V","i","o","l","e","n","t">>, <<"A","S","S","A","U","L","T">>,
    <<"T","h","e","f","t">>, <<"S","t","o","l","e","n">>,
    <<"P","r","o","p","e","r","t","y">>, <<"T","r","a","f","f","i","c">>,
    <<"L","o","s","t">>, <<"O","t","h","e","r">>,
    <<"P","u","b","l","i","c">>, <<"O","r","d","e","r">>,
    <<"C","r","i","m","e">>, <<"V","i","o","l","a","t","i","o","n">>,
    <<"D","U","I">>, <<"I","n","f","o","r","m","a","t","i","o","n">> >>

\* labels of n words, separated by one space
RECURSIVE LabelsOf(_)
LabelsOf(n) ==
    IF n = 1 THEN {LabelWords[i] : i \in 1..Len(LabelWords)}
    ELSE {l \o <<" ">> \o LabelWords[i] :
              l \in LabelsOf(n - 1), i \in 1..Len(LabelWords)}

Labels == UNION {LabelsOf(n) : n \in 1..MaxWords}

InitClassify ==
    /\ allIncidents = <<>>
    /\ tzOffset = 0
    /\ incidentDateStart = <<>>
    /\ incidentDateEnd = <<>>
    /\ reportDateStart = <<>>
    /\ reportDateEnd = <<>>
    /\ selectedCategories = <<>>
    /\ parseInput = <<>>
    /\ parseResult = Idle
    /\ classifyInput \in Labels
    /\ classifyResult = NotClassified
    /\ InitMapContent

CallClassify ==
    /\ classifyResult = NotClassified
    /\ classifyResult' = [severity |-> getCategorySeverityLevel(classifyInput),
                          color |-> assignColorByCategory(classifyInput)]
    /\ UNCHANGED <<allIncidents, tzOffset, incidentDateStart, incidentDateEnd,
                   reportDateStart, reportDateEnd, selectedCategories,
                   parseInput, parseResult, classifyInput, mapContent>>

SpecClassify == InitClassify /\ [][CallClassify]_vars

-----------------------------------------------------------------------------
(* The derived categories on their own: the collection varies, the date     *)
(* bounds stay empty and the category checkboxes are the only controls used *)

InitCategories ==
    /\ allIncidents \in SeqsUpTo(CategoryIncidents, MaxCategoryIncidents)
    /\ tzOffset = 0
    /\ incidentDateStart = <<>>
    /\ incidentDateEnd = <<>>
    /\ reportDateStart = <<>>
    /\ reportDateEnd = <<>>
    /\ selectedCategories = <<>>
    /\ parseInput = <<>>
    /\ parseResult = Idle
    /\ classifyInput = <<>>
    /\ classifyResult = NotClassified
    /\ InitMapContent

NextCategories ==
    \/ handleCategoryChange
    \/ ClearSelection

SpecCategories == InitCategories /\ [][NextCategories]_vars

-----------------------------------------------------------------------------
(* MapContent *)

(***************************************************************************)
(* The component's state is its incidentsToDisplay prop and its four       *)
(* useState cells.  A change of the prop renders the component with the    *)
(* new list and the cells as they were; the effect on [incidentsToDisplay] *)
(* runs once that render is committed (effectPending) and before any other *)
(* handler.  Coordinates are in hundredths of a degree; names and          *)
(* addresses are not taken apart and are plain strings.                    *)
(***************************************************************************)

\* a number held in a cell of type number | null
Number(n) == [tag |-> "number", t |-> n]

LatLng(lat, lng) == [lat |-> lat, lng |-> lng]

\* what autocomplete.getPlace() may return: places found by the service, and
\* places lacking the geometry, the name or the address
Places == {
    [geometry |-> LatLng(3744, -12216), name |-> "City Hall",
     formatted_address |-> "250 Hamilton Ave, Palo Alto"],
    [geometry |-> LatLng(3743, -12217), name |-> "Stanford University",
     formatted_address |-> "450 Jane Stanford Way, Stanford"],
    [geometry |-> Null, name |-> "hamilton", formatted_address |-> ""],
    [geometry |-> LatLng(3744, -12216), name |-> "",
     formatted_address |-> "250 Hamilton Ave, Palo Alto"],
    [geometry |-> LatLng(3744, -12216), name |-> "City Hall",
     formatted_address |-> ""] }

\* place.geometry?.location && place.name && place.formatted_address
HasLocationNameAddress(place) ==
    /\ place.geometry # Null
    /\ place.name # ""
    /\ place.formatted_address # ""

\* the lists Home may hand over as incidentsToDisplay
DisplayLists == SeqsUpTo(IncidentPool, MaxIncidents)

incidents == incidentsToDisplay

\* incidents[selectedIncidentIndex], Null when the index is null or past the
\* end of the list
selectedIncident ==
    IF selectedIncidentIndex # Null /\ selectedIncidentIndex.t < Len(incidents)
    THEN incidents[selectedIncidentIndex.t + 1]
    ELSE Null

\* the search result markers rendered
searchResultMarkers ==
    IF searchResultPosition # Null THEN <<searchResultPosition>> ELSE <<>>

\* the info windows rendered, each with what it shows
infoWindows ==
    (IF selectedIncident # Null
     THEN <<[shows |-> selectedIncident]>> ELSE <<>>)
    \o (IF selectedPlaceDetails # Null /\ searchResultPosition # Null
        THEN <<[shows |-> selectedPlaceDetails]>> ELSE <<>>)

home == <<allIncidents, tzOffset, incidentDateStart, incidentDateEnd,
          reportDateStart, reportDateEnd, selectedCategories,
          parseInput, parseResult, classifyInput, classifyResult>>

\* mutant: a search without a usable place also takes the marker away
placeChangedWith_ClearsMarker(place) ==
    /\ ~effectPending
    /\ IF HasLocationNameAddress(place)
       THEN LET newPos == LatLng(place.geometry.lat, place.geometry.lng)
                newPlaceDetails == [name |-> place.name,
                                    formattedAddress |-> place.formatted_address]
            IN  /\ searchResultPosition' = newPos
                /\ pinnedPlaceDetails' = newPlaceDetails
                /\ selectedPlaceDetails' = newPlaceDetails
                /\ selectedIncidentIndex' = Null
       ELSE /\ selectedPlaceDetails' = Null
            /\ searchResultPosition' = Null
            /\ pinnedPlaceDetails' = Null
            /\ UNCHANGED selectedIncidentIndex
    /\ UNCHANGED <<incidentsToDisplay, effectPending, clickedIncident, home>>

\* the place_changed listener, for the place getPlace returns
placeChangedWith(place) ==
    /\ ~effectPending
    /\ IF HasLocationNameAddress(place)
       THEN LET newPos == LatLng(place.geometry.lat, place.geometry.lng)
                newPlaceDetails == [name |-> place.name,
                                    formattedAddress |-> place.formatted_address]
            IN  /\ searchResultPosition' = newPos
                /\ pinnedPlaceDetails' = newPlaceDetails
                /\ selectedPlaceDetails' = newPlaceDetails
                /\ selectedIncidentIndex' = Null
       ELSE /\ selectedPlaceDetails' = Null
            /\ UNCHANGED <<searchResultPosition, pinnedPlaceDetails,
                           selectedIncidentIndex>>
    /\ UNCHANGED <<incidentsToDisplay, effectPending, clickedIncident, home>>

placeChanged == \E place \in Places : placeChangedWith(place)

\* a click on the map's background
mapClick ==
    /\ ~effectPending
    /\ selectedIncidentIndex' = Null
    /\ selectedPlaceDetails' = Null
    /\ UNCHANGED <<incidentsToDisplay, searchResultPosition, pinnedPlaceDetails,
                   effectPending, clickedIncident, home>>

\* mutant: the click on an incident marker leaves the place selected
incidentMarkerClick_KeepsPlace ==
    /\ ~effectPending
    /\ \E index \in 0..(Len(incidents) - 1) :
           /\ selectedIncidentIndex' = Number(index)
           /\ clickedIncident' = incidents[index + 1]
    /\ UNCHANGED <<incidentsToDisplay, searchResultPosition, pinnedPlaceDetails,
                   selectedPlaceDetails, effectPending, home>>

\* a click on the marker of incidents[index]
incidentMarkerClick ==
    /\ ~effectPending
    /\ \E index \in 0..(Len(incidents) - 1) :
           /\ selectedIncidentIndex' = Number(index)
           /\ clickedIncident' = incidents[index + 1]
    /\ selectedPlaceDetails' = Null
    /\ UNCHANGED <<incidentsToDisplay, searchResultPosition, pinnedPlaceDetails,
                   effectPending, home>>

\* a click on the search result marker, which is there when a position is set
searchMarkerClick ==
    /\ ~effectPending
    /\ searchResultMarkers # <<>>
    /\ selectedPlaceDetails' = pinnedPlaceDetails
    /\ selectedIncidentIndex' = Null
    /\ UNCHANGED <<incidentsToDisplay, searchResultPosition, pinnedPlaceDetails,
                   effectPending, clickedIncident, home>>

\* onCloseClick of the incident info window
incidentInfoWindowClose ==
    /\ ~effectPending
    /\ selectedIncident # Null
    /\ selectedIncidentIndex' = Null
    /\ UNCHANGED <<incidentsToDisplay, searchResultPosition, pinnedPlaceDetails,
                   selectedPlaceDetails, effectPending, clickedIncident, home>>

\* onCloseClick of the place info window
placeInfoWindowClose ==
    /\ ~effectPending
    /\ selectedPlaceDetails # Null /\ searchResultPosition # Null
    /\ selectedPlaceDetails' = Null
    /\ UNCHANGED <<incidentsToDisplay, selectedIncidentIndex,
                   searchResultPosition, pinnedPlaceDetails, effectPending,
                   clickedIncident, home>>

\* Home renders with a new filteredIncidents array: MapContent renders with
\* the new list and its cells as they are, and the effect is due
incidentsToDisplayChange ==
    /\ ~effectPending
    /\ incidentsToDisplay' \in DisplayLists
    /\ effectPending' = TRUE
    /\ UNCHANGED <<selectedIncidentIndex, searchResultPosition,
                   selectedPlaceDetails, pinnedPlaceDetails, clickedIncident,
                   home>>

\* mutant: the effect closes the place info window as well
resetEffect_ClearsPlace ==
    /\ effectPending
    /\ selectedIncidentIndex' = Null
    /\ selectedPlaceDetails' = Null
    /\ effectPending' = FALSE
    /\ UNCHANGED <<incidentsToDisplay, searchResultPosition, pinnedPlaceDetails,
                   clickedIncident, home>>

\* the effect on [incidentsToDisplay]
resetEffect ==
    /\ effectPending
    /\ selectedIncidentIndex' = Null
    /\ effectPending' = FALSE
    /\ UNCHANGED <<incidentsToDisplay, searchResultPosition,
                   selectedPlaceDetails, pinnedPlaceDetails, clickedIncident,
                   home>>

InitMap ==
    /\ allIncidents = <<>>
    /\ tzOffset = 0
    /\ incidentDateStart = <<>>
    /\ incidentDateEnd = <<>>
    /\ reportDateStart = <<>>
    /\ reportDateEnd = <<>>
    /\ selectedCategories = <<>>
    /\ parseInput = <<>>
    /\ parseResult = Idle
    /\ classifyInput = <<>>
    /\ classifyResult = NotClassified
    /\ incidentsToDisplay \in DisplayLists
    /\ selectedIncidentIndex = Null
    /\ searchResultPosition = Null
    /\ selectedPlaceDetails = Null
    /\ pinnedPlaceDetails = Null
    /\ effectPending = FALSE
    /\ clickedIncident = Null

NextMap ==
    \/ placeChanged
    \/ mapClick
    \/ incidentMarkerClick
    \/ searchMarkerClick
    \/ incidentInfoWindowClose
    \/ placeInfoWindowClose
    \/ incidentsToDisplayChange
    \/ resetEffect

SpecMap == InitMap /\ [][NextMap]_vars

\* the effect runs once the render that changed the list is committed
SpecMapFair == SpecMap /\ WF_vars(resetEffect)

-----------------------------------------------------------------------------
(* Reference definitions used to state the properties *)

\* the Gregorian length of month m (1..12) of year y
RefDaysInMonth(m, y) ==
    IF m \in {4, 6, 9, 11} THEN 30
    ELSE IF m = 2
    THEN (IF (y % 4 = 0 /\ y % 100 # 0) \/ y % 400 = 0 THEN 29 ELSE 28)
    ELSE 31

\* the number of days from 1970-01-01 to the civil date y-m-d
CivilDay(y, m, d) ==
    LET yy  == IF m <= 2 THEN y - 1 ELSE y
        era == yy \div 400
        yoe == yy - era * 400
        doy == ((153 * (IF m > 2 THEN m - 3 ELSE m + 9) + 2) \div 5) + d - 1
        doe == yoe * 365 + (yoe \div 4) - (yoe \div 100) + doy
    IN  era * 146097 + doe - 719468

\* exactly three '/'-separated components, each purely numeric
IsNumericMDY(s) ==
    LET parts == split(s, "/")
    IN  Len(parts) = 3 /\ \A i \in 1..3 : AllDigits(parts[i])

\* <<month, day, year>> of a numeric M/D/YYYY string
MDYOf(s) ==
    LET parts == split(s, "/")
    IN  <<DigitsValue(parts[1]), DigitsValue(parts[2]), DigitsValue(parts[3])>>

\* s is a numeric M/D/YYYY string naming a day of the calendar, year 1900..3000
IsCalendarMDY(s) ==
    /\ IsNumericMDY(s)
    /\ LET c == MDYOf(s)
       IN  /\ c[1] \in 1..12
           /\ c[3] \in 1900..3000
           /\ c[2] >= 1 /\ c[2] <= RefDaysInMonth(c[1], c[3])

\* the calendar day <<year, month, day>> of such a string
DayOfMDY(s) == LET c == MDYOf(s) IN <<c[3], c[1], c[2]>>

\* s is a YYYY-MM-DD value of a date input naming a day of the calendar
IsCalendarInput(s) ==
    /\ IsIsoDate(s)
    /\ DigitsValue(SubSeq(s, 6, 7)) \in 1..12
    /\ DigitsValue(SubSeq(s, 9, 10)) >= 1
    /\ DigitsValue(SubSeq(s, 9, 10)) <=
           RefDaysInMonth(DigitsValue(SubSeq(s, 6, 7)), DigitsValue(SubSeq(s, 1, 4)))

DayOfInput(s) ==
    <<DigitsValue(SubSeq(s, 1, 4)), DigitsValue(SubSeq(s, 6, 7)),
      DigitsValue(SubSeq(s, 9, 10))>>

\* calendar days compared as <<year, month, day>>
DayLeq(a, b) ==
    \/ a[1] < b[1]
    \/ a[1] = b[1] /\ a[2] < b[2]
    \/ a[1] = b[1] /\ a[2] = b[2] /\ a[3] <= b[3]

\* a bound is unset, or a calendar-input date
BoundOk(s) == s = <<>> \/ IsCalendarInput(s)

\* day D lies within the inclusive bounds S and E, an unset bound not counting
WithinBounds(D, S, E) ==
    /\ S = <<>> \/ DayLeq(DayOfInput(S), D)
    /\ E = <<>> \/ DayLeq(D, DayOfInput(E))

\* s is monthname-dd-yyyy with numeric day and year, both in range, naming a
\* day of the calendar
IsCalendarSlug(s) ==
    LET parts == split(s, "-")
    IN  /\ Len(parts) = 3
        /\ monthIndexOf(toLowerCase(parts[1])) > -1
        /\ AllDigits(parts[2]) /\ AllDigits(parts[3])
        /\ DigitsValue(parts[3]) \in 1900..3000
        /\ DigitsValue(parts[2]) >= 1
        /\ DigitsValue(parts[2]) <=
               RefDaysInMonth(monthIndexOf(toLowerCase(parts[1])) + 1,
                              DigitsValue(parts[3]))

DayOfSlug(s) ==
    LET parts == split(s, "-")
    IN  <<DigitsValue(parts[3]), monthIndexOf(toLowerCase(parts[1])) + 1,
          DigitsValue(parts[2])>>

NoBounds ==
    /\ incidentDateStart = <<>> /\ incidentDateEnd = <<>>
    /\ reportDateStart = <<>> /\ reportDateEnd = <<>>

InFiltered(incident) ==
    LET kept == filteredIncidents
    IN  \E i \in 1..Len(kept) : kept[i] = incident

\* police_record_date exists and parses
PrimaryParses(incident, tz) ==
    /\ incident.police_record_date # <<>>
    /\ IsDate(NewDate(incident.police_record_date, tz))

(***************************************************************************)
(* What the properties expect of each input, computed once per input.      *)
(***************************************************************************)

\* the incidents whose date names a day of the calendar
CalendarDated == {incident \in IncidentPool : IsCalendarMDY(incident.date)}

\* the incidents whose date parseMDYToUTCDate rejects
RejectedDated ==
    {incident \in IncidentPool : parseMDYToUTCDate(incident.date) = Null}

\* whether the incident's day lies within the incident-date bounds
expectIncidentDate ==
    [incident \in CalendarDated |->
        [start \in {v \in IncidentDateInputs : BoundOk(v)} |->
            [end \in {v \in IncidentDateInputs : BoundOk(v)} |->
                WithinBounds(DayOfMDY(incident.date), start, end)]]]

\* the report date of each incident in each zone
reportDateOf ==
    [tz \in TimeZoneOffsets |->
        [incident \in IncidentPool |-> ResolveReportDate(incident, tz)]]

\* whether the day of the incident's report date lies within the report-date
\* bounds
expectReportDate ==
    [tz \in TimeZoneOffsets |->
        [incident \in {x \in IncidentPool : reportDateOf[tz][x] # Null} |->
            [start \in {v \in ReportDateInputs : BoundOk(v)} |->
                [end \in {v \in ReportDateInputs : BoundOk(v)} |->
                    WithinBounds(LocalYMD(reportDateOf[tz][incident], tz),
                                 start, end)]]]]

\* the set bounds that do not parse as a date
malformedIncidentBounds ==
    [tz \in TimeZoneOffsets |->
        {v \in IncidentDateInputs :
            v # <<>> /\ ~IsDate(NewDate(v \o MidnightZ, tz))}]

malformedReportBounds ==
    [tz \in TimeZoneOffsets |->
        {v \in ReportDateInputs : v # <<>> /\ ~IsDate(NewDate(v, tz))}]

-----------------------------------------------------------------------------
(* Properties of the filter *)

DateGroupsOnly(incident) ==
    PassesIncidentDate(incident) /\ PassesReportDate(incident)

\* C1: with no category selected the category group restricts nothing: the
\* result is that of the two date groups alone; with the four date bounds
\* empty as well the result is the whole collection, in its order.
C1_NoCategoryNoRestriction ==
    selectedCategories = <<>> =>
        /\ filteredIncidents = SelectSeq(allIncidents, DateGroupsOnly)
        /\ NoBounds => filteredIncidents = allIncidents

C1_Witness ==
    /\ selectedCategories = <<>>
    /\ incidentDateStart # <<>>
    /\ Len(allIncidents) = 2
    /\ Len(filteredIncidents) = 1

\* C2: an incident dated on calendar day D passes the incident-date group
\* exactly when D lies within the set bounds, both inclusive; incidents dated
\* 1/15/2025 and 3/1/2025 filtered with start 2025-02-01 alone leave exactly
\* the second.
C2_IncidentDateInclusive ==
    /\ \A i \in 1..Len(allIncidents) :
         (/\ allIncidents[i] \in CalendarDated
          /\ BoundOk(incidentDateStart) /\ BoundOk(incidentDateEnd))
         => (PassesIncidentDate(allIncidents[i])
               <=> expectIncidentDate[allIncidents[i]][incidentDateStart][incidentDateEnd])
    /\ (/\ Len(allIncidents) = 2
        /\ allIncidents[1].date = <<"1","/","1","5","/","2","0","2","5">>
        /\ allIncidents[2].date = <<"3","/","1","/","2","0","2","5">>
        /\ incidentDateStart = <<"2","0","2","5","-","0","2","-","0","1">>
        /\ incidentDateEnd = <<>> /\ reportDateStart = <<>>
        /\ reportDateEnd = <<>> /\ selectedCategories = <<>>)
       => filteredIncidents = <<allIncidents[2]>>

\* start and end bound name the same day: the incident dated on that day is
\* retained, the other is not
C2_Witness ==
    /\ incidentDateStart = <<"2","0","2","5","-","0","2","-","0","1">>
    /\ incidentDateEnd = <<"2","0","2","5","-","0","2","-","0","1">>
    /\ Len(allIncidents) = 2
    /\ Len(filteredIncidents) = 1
    /\ filteredIncidents[1].date = <<"2","/","1","/","2","0","2","5">>

\* C3: with an incident-date bound set, start or end or both, no incident
\* whose date parseMDYToUTCDate rejects is in the result.
C3_UnparsedDateExcluded ==
    (incidentDateStart # <<>> \/ incidentDateEnd # <<>>) =>
        \A i \in 1..Len(filteredIncidents) :
            filteredIncidents[i] \notin RejectedDated

\* only the end bound is set, one incident's date is rejected, the other's is
\* retained
C3_Witness ==
    /\ incidentDateStart = <<>> /\ incidentDateEnd # <<>>
    /\ Len(allIncidents) = 2
    /\ allIncidents[1] \in RejectedDated
    /\ filteredIncidents = <<allIncidents[2]>>

\* C4: a set bound of either date group that does not parse as a date empties
\* the result.
C4_MalformedBoundExcludesAll ==
    (\/ incidentDateStart \in malformedIncidentBounds[tzOffset]
     \/ incidentDateEnd \in malformedIncidentBounds[tzOffset]
     \/ reportDateStart \in malformedReportBounds[tzOffset]
     \/ reportDateEnd \in malformedReportBounds[tzOffset])
    => filteredIncidents = <<>>

\* what C5 says of the report date of one incident in one zone
ResolutionAsStated(incident, tz) ==
    LET reportDate == ResolveReportDate(incident, tz)
    IN  /\ PrimaryParses(incident, tz) =>
            /\ IsDate(reportDate)
            /\ LocalYMD(reportDate, tz)
                   = LocalYMD(NewDate(incident.police_record_date, tz), tz)
        /\ (~PrimaryParses(incident, tz)
              /\ IsCalendarSlug(incident.police_record_date_str)) =>
            /\ IsDate(reportDate)
            /\ LocalYMD(reportDate, tz) = DayOfSlug(incident.police_record_date_str)
        /\ (~PrimaryParses(incident, tz) /\ incident.police_record_date_str = <<>>) =>
            reportDate = Null
        /\ (incident.police_record_date = <<>>
              /\ incident.police_record_date_str = <<"a","p","r","i","l","-","0","7","-","2","0","2","5">>) =>
            (IsDate(reportDate) /\ LocalYMD(reportDate, tz) = <<2025, 4, 7>>)

resolvedAsStated ==
    [tz \in TimeZoneOffsets |->
        {incident \in IncidentPool : ResolutionAsStated(incident, tz)}]

C6_ReportDateInclusive ==
    \A i \in 1..Len(allIncidents) :
        (/\ reportDateOf[tzOffset][allIncidents[i]] # Null
         /\ BoundOk(reportDateStart) /\ BoundOk(reportDateEnd))
        => (PassesReportDate(allIncidents[i])
              <=> expectReportDate[tzOffset][allIncidents[i]][reportDateStart][reportDateEnd])

\* the incidents whose slug is not monthname-dd-yyyy naming a day of the calendar
BadSlugged ==
    {incident \in IncidentPool :
        /\ incident.police_record_date_str # <<>>
        /\ ~IsCalendarSlug(incident.police_record_date_str)}

\* C7: a slug that is not monthname-dd-yyyy naming a day of the calendar
\* yields no report date.
C7_SlugRejection ==
    \A i \in 1..Len(allIncidents) :
        allIncidents[i] \in BadSlugged
        => SlugReportDate(allIncidents[i].police_record_date_str, tzOffset) = Null

\* C16: filtering the filter's own output under the same four date bounds
\* and selected categories returns that output unchanged.
C16_FilterIdempotent ==
    filter(filter(allIncidents)) = filter(allIncidents)

\* a date bound and a category are set, and the filter has retained one of
\* two incidents
C16_Witness ==
    /\ incidentDateStart # <<>>
    /\ selectedCategories # <<>>
    /\ Len(allIncidents) = 2
    /\ Len(filter(allIncidents)) = 1

-----------------------------------------------------------------------------
(* Properties of parseMDYToUTCDate *)

\* C8: parseMDYToUTCDate returns null for every input that is not three
\* purely numeric '/'-separated components, or has month, day or year out of
\* range, or names a day the month does not have.
C8_RejectsAllButCalendarDates ==
    (parseResult # Idle /\ ~IsCalendarMDY(parseInput)) => parseResult = Null

\* C9: for M/D/YYYY naming a day of the calendar, year 1900..3000,
\* parseMDYToUTCDate returns UTC midnight of exactly that day; for a day the
\* month does not have, such as 2/30/2024, it returns null.
C9_CalendarRoundTrip ==
    parseResult # Idle =>
        /\ IsCalendarMDY(parseInput) =>
              LET c == MDYOf(parseInput)
              IN  /\ parseResult = MkDate(24 * CivilDay(c[3], c[1], c[2]))
                  /\ getUTCFullYear(parseResult) = c[3]
                  /\ getUTCMonth(parseResult) + 1 = c[1]
                  /\ getUTCDate(parseResult) = c[2]
        /\ (/\ IsNumericMDY(parseInput)
            /\ MDYOf(parseInput)[1] \in 1..12
            /\ MDYOf(parseInput)[3] \in 1900..3000
            /\ MDYOf(parseInput)[2]
                   > RefDaysInMonth(MDYOf(parseInput)[1], MDYOf(parseInput)[3]))
           => parseResult = Null
        /\ parseInput = <<"2","/","3","0","/","2","0","2","4">> => parseResult = Null

\* the leap day of 2024 has been parsed
C9_Witness ==
    /\ parseInput = <<"2","/","2","9","/","2","0","2","4">>
    /\ IsDate(parseResult)

-----------------------------------------------------------------------------
(* Properties of the classifier *)

\* the keyword tiers, in priority order
TierKeywords == <<
    {<<"v","i","o","l","e","n","t">>, <<"r","o","b","b","e","r","y">>,
     <<"b","u","r","g","l","a","r","y">>, <<"w","e","a","p","o","n">>,
     <<"a","s","s","a","u","l","t">>},
    {<<"t","h","e","f","t">>, <<"f","r","a","u","d">>,
     <<"v","e","h","i","c","l","e">>, <<"s","t","o","l","e","n">>,
     <<"d","u","i">>, <<"n","a","r","c","o","t","i","c">>},
    {<<"p","r","o","p","e","r","t","y">>,
     <<"v","a","n","d","a","l","i","s","m">>,
     <<"d","i","s","t","u","r","b","a","n","c","e">>,
     <<"t","r","e","s","p","a","s","s">>,
     <<"p","u","b","l","i","c"," ","o","r","d","e","r">>},
    {<<"t","r","a","f","f","i","c">>},
    {<<"a","d","m","i","n">>, <<"o","t","h","e","r">>,
     <<"w","a","r","r","a","n","t">>, <<"a","r","r","e","s","t">>,
     <<"l","o","s","t">>, <<"f","o","u","n","d">>,
     <<"s","u","s","p","i","c","i","o","u","s">>, <<"i","n","f","o">>,
     <<"m","i","s","c">>, <<"w","e","l","f","a","r","e">>} >>

TierSeverity == <<"High", "Medium", "Low", "Low", "Informational/Other", "Default">>

TierColor == <<"#B91C1C", "#F59E0B", "#EAB308", "#2563EB", "#6B7280", "#9CA3AF">>

TierMatches(label, i) ==
    \E kw \in TierKeywords[i] : includes(toLowerCase(label), kw)

\* the first tier with a keyword in the label, 6 (Default) when there is none
TierOf(label) ==
    IF \E i \in 1..5 : TierMatches(label, i)
    THEN CHOOSE i \in 1..5 :
             TierMatches(label, i) /\ \A j \in 1..(i - 1) : ~TierMatches(label, j)
    ELSE 6

\* C10: severity and color of a label are those of the first tier, in the
\* order High, Medium, Low/Property, Low/Traffic, Informational/Other, of
\* which the label contains a keyword, case ignored, and Default otherwise.
C10_FirstMatchingTier ==
    classifyResult # NotClassified =>
        /\ classifyResult.severity = TierSeverity[TierOf(classifyInput)]
        /\ classifyResult.color = TierColor[TierOf(classifyInput)]

\* a label with keywords of two tiers has been classified by the higher one
C10_Witness ==
    /\ classifyInput = <<"S","t","o","l","e","n"," ","P","r","o","p","e","r","t","y">>
    /\ classifyResult = [severity |-> "Medium", color |-> "#F59E0B"]

\* C11: severity and color of every label come from the same tier: the color
\* is #B91C1C exactly when the severity is High, #F59E0B exactly when Medium,
\* #EAB308 or #2563EB exactly when Low, #6B7280 exactly when
\* Informational/Other and #9CA3AF exactly when Default.
C11_SeverityColorSameTier ==
    classifyResult # NotClassified =>
        /\ classifyResult.color = "#B91C1C" <=> classifyResult.severity = "High"
        /\ classifyResult.color = "#F59E0B" <=> classifyResult.severity = "Medium"
        /\ classifyResult.color \in {"#EAB308", "#2563EB"}
               <=> classifyResult.severity = "Low"
        /\ classifyResult.color = "#6B7280"
               <=> classifyResult.severity = "Informational/Other"
        /\ classifyResult.color = "#9CA3AF" <=> classifyResult.severity = "Default"

\* a label with a keyword of the Informational/Other tier and one of the
\* Low/Property tier has been classified
C11_Witness ==
    /\ classifyInput = <<"L","o","s","t"," ","P","r","o","p","e","r","t","y">>
    /\ classifyResult = [severity |-> "Low", color |-> "#EAB308"]

-----------------------------------------------------------------------------
(* Properties of MapContent *)

\* C17: at most one info window is rendered (the incident info window and the
\* place info window are never both open) and at most one search result
\* marker.
C17_OneInfoWindow ==
    /\ Len(infoWindows) <= 1
    /\ ~(selectedIncident # Null
           /\ selectedPlaceDetails # Null /\ searchResultPosition # Null)
    /\ Len(searchResultMarkers) <= 1

\* an incident marker has been clicked and, later, the place info window
\* opened: it is the only window
C17_Witness ==
    /\ clickedIncident # Null
    /\ selectedPlaceDetails # Null
    /\ Len(infoWindows) = 1
    /\ Len(incidents) > 0

\* C18: once the list handed to MapContent has changed, the selected incident
\* index becomes null and the incident info window is closed; the step that
\* resets it leaves the search result position, the pinned place and the
\* selected place as they are.
C18_ResetOnListChange ==
    /\ effectPending ~> (~effectPending /\ selectedIncidentIndex = Null
                           /\ selectedIncident = Null)
    /\ [][(effectPending /\ ~effectPending') =>
             /\ selectedIncidentIndex' = Null
             /\ UNCHANGED <<searchResultPosition, pinnedPlaceDetails,
                            selectedPlaceDetails>>]_vars

\* the list has changed since the last marker click and the effect has run:
\* no incident is selected, the search result marker is still there
C18_Witness ==
    /\ ~effectPending
    /\ clickedIncident # Null
    /\ \A i \in 1..Len(incidents) : incidents[i] # clickedIncident
    /\ selectedIncidentIndex = Null
    /\ searchResultPosition # Null
    /\ pinnedPlaceDetails # Null

\* C19: whenever the incident info window is rendered it shows the incident
\* of the marker clicked last, and a selected index is never past the end of
\* the list rendered.
C19_ShowsClickedIncident ==
    /\ selectedIncident # Null => selectedIncident = clickedIncident
    /\ selectedIncidentIndex # Null => selectedIncidentIndex.t < Len(incidents)

\* a search that found a place
FoundPlaceStep ==
    \E place \in Places :
        HasLocationNameAddress(place) /\ placeChangedWith(place)

\* C20: once a search has set the search result position and the pinned
\* details, every step that is not another successful search leaves both
\* unchanged (a failed search and the other handlers change at most the
\* selected place and the selected incident); a click on the search marker
\* opens the place info window with exactly the pinned details.
C20_SearchPinPersists ==
    /\ [][(searchResultPosition # Null /\ ~FoundPlaceStep) =>
             UNCHANGED <<searchResultPosition, pinnedPlaceDetails>>]_vars
    /\ [][searchMarkerClick =>
             /\ infoWindows' = <<[shows |-> pinnedPlaceDetails]>>
             /\ pinnedPlaceDetails' = pinnedPlaceDetails
             /\ pinnedPlaceDetails # Null]_vars
    /\ [](searchResultPosition # Null <=> pinnedPlaceDetails # Null)

\* after a successful search an incident marker was clicked: the place info
\* window is closed, the marker and the pinned details are kept
C20_Witness ==
    /\ searchResultPosition # Null
    /\ pinnedPlaceDetails # Null
    /\ selectedPlaceDetails = Null
    /\ selectedIncident # Null

-----------------------------------------------------------------------------
(* Properties of the derived categories *)

\* the severity of each label, computed once per label
severityOfCategory ==
    [category \in CategoryLabels |-> getCategorySeverityLevel(category)]

\* the categories of the collection, in the order of the incidents
categoriesInOrder ==
    [i \in 1..Len(allIncidents) |-> allIncidents[i].offense_category]

\* the collection's category set is that of the scenario
ScenarioCategories ==
    categories = {<<"V","i","o","l","e","n","t"," ","C","r","i","m","e">>,
                  <<"T","r","a","f","f","i","c"," ","V","i","o","l","a","t","i","o","n">>,
                  <<"L","o","s","t"," ","P","r","o","p","e","r","t","y">>}

\* C12 as stated: the scenario's severities are High, Low and
\* Informational/Other, and the derived sequence is Violent Crime, Traffic
\* Violation, Lost Property.
C12_ScenarioAsStated ==
    ScenarioCategories =>
        /\ severityOfCategory[<<"V","i","o","l","e","n","t"," ","C","r","i","m","e">>] = "High"
        /\ severityOfCategory[<<"T","r","a","f","f","i","c"," ","V","i","o","l","a","t","i","o","n">>] = "Low"
        /\ severityOfCategory[<<"L","o","s","t"," ","P","r","o","p","e","r","t","y">>] = "Informational/Other"
        /\ uniqueCategories = << <<"V","i","o","l","e","n","t"," ","C","r","i","m","e">>,
                                 <<"T","r","a","f","f","i","c"," ","V","i","o","l","a","t","i","o","n">>,
                                 <<"L","o","s","t"," ","P","r","o","p","e","r","t","y">> >>

\* C12 (amended): for the category set {Violent Crime, Traffic Violation,
\* Lost Property} the severities are High, Low and Low respectively, and the
\* derived sequence is Violent Crime, Lost Property, Traffic Violation.
C12_Scenario ==
    ScenarioCategories =>
        /\ severityOfCategory[<<"V","i","o","l","e","n","t"," ","C","r","i","m","e">>] = "High"
        /\ severityOfCategory[<<"T","r","a","f","f","i","c"," ","V","i","o","l","a","t","i","o","n">>] = "Low"
        /\ severityOfCategory[<<"L","o","s","t"," ","P","r","o","p","e","r","t","y">>] = "Low"
        /\ uniqueCategories = << <<"V","i","o","l","e","n","t"," ","C","r","i","m","e">>,
                                 <<"L","o","s","t"," ","P","r","o","p","e","r","t","y">>,
                                 <<"T","r","a","f","f","i","c"," ","V","i","o","l","a","t","i","o","n">> >>

\* the scenario's incidents come in the order Traffic Violation, Lost
\* Property, Violent Crime and the sequence has been derived
C12_Witness ==
    /\ categoriesInOrder = << <<"T","r","a","f","f","i","c"," ","V","i","o","l","a","t","i","o","n">>,
                              <<"L","o","s","t"," ","P","r","o","p","e","r","t","y">>,
                              <<"V","i","o","l","e","n","t"," ","C","r","i","m","e">> >>
    /\ Len(uniqueCategories) = 3
    /\ uniqueCategories[1] = <<"V","i","o","l","e","n","t"," ","C","r","i","m","e">>

\* the labels of a sequence of categories
LabelsIn(list) == {list[i] : i \in 1..Len(list)}

\* C13: uniqueCategories holds no label twice and no empty label, and holds a
\* label exactly when the label is not empty and is the category of some
\* incident; an empty collection gives an empty sequence.
C13_DerivedCategories ==
    LET derived == uniqueCategories
        labels == LabelsIn(derived)
    IN  /\ \A i, j \in 1..Len(derived) : i # j => derived[i] # derived[j]
        /\ \A i \in 1..Len(derived) : derived[i] # <<>>
        /\ \A c \in CategoryLabels \cup {<<>>} :
               c \in labels
                   <=> (/\ c # <<>>
                        /\ \E k \in 1..Len(allIncidents) :
                               allIncidents[k].offense_category = c)
        /\ labels \subseteq CategoryLabels
        /\ allIncidents = <<>> => derived = <<>>

\* three incidents, two of one category and one without a category, have
\* given a single label
C13_Witness ==
    /\ Len(allIncidents) = 3
    /\ \E k \in 1..3 : allIncidents[k].offense_category = <<>>
    /\ \E k, l \in 1..3 :
           /\ k # l
           /\ allIncidents[k] = allIncidents[l]
           /\ allIncidents[k].offense_category # <<>>
    /\ Len(uniqueCategories) = 1

\* the rank of a severity under High < Medium < Low < Informational/Other
\* < Default
SeverityRank(severity) ==
    CASE severity = "High" -> 1
      [] severity = "Medium" -> 2
      [] severity = "Low" -> 3
      [] severity = "Informational/Other" -> 4
      [] severity = "Default" -> 5

\* the place of a character in the alphabet, the space before the letters,
\* upper and lower case alike
AlphabetPlace(c) ==
    IF c = " " THEN 0
    ELSE CHOOSE k \in 1..26 : toLowerCase(<<c>>) = <<Lower[k]>>

\* a comes before b in the dictionary: at the first place where they differ a
\* has the earlier character, or a is a proper prefix of b
RefAlphaBefore(a, b) ==
    \E k \in 1..(Len(a) + 1) :
        /\ k <= Len(b)
        /\ \A j \in 1..(k - 1) : AlphabetPlace(a[j]) = AlphabetPlace(b[j])
        /\ \/ k = Len(a) + 1
           \/ k <= Len(a) /\ AlphabetPlace(a[k]) < AlphabetPlace(b[k])

\* whether a may stand right before b in the derived sequence
mayPrecede ==
    [a \in CategoryLabels |-> [b \in CategoryLabels |->
        \/ SeverityRank(severityOfCategory[a]) < SeverityRank(severityOfCategory[b])
        \/ /\ severityOfCategory[a] = severityOfCategory[b]
           /\ RefAlphaBefore(a, b)]]

\* the collection with its incidents k and k + 1 in each other's place
Swapped(k) ==
    [i \in 1..Len(allIncidents) |->
        IF i = k THEN allIncidents[k + 1]
        ELSE IF i = k + 1 THEN allIncidents[k]
        ELSE allIncidents[i]]

\* C14: of two adjacent labels of uniqueCategories the first has the lower
\* severity rank, or the same severity and the earlier place in the
\* alphabet; the sequence is the same for every order of the incidents
\* (exchanging two neighbours of any collection does not change it, and every
\* order is reached by such exchanges).
C14_SeverityThenAlphabetical ==
    LET derived == uniqueCategories
    IN  /\ \A i \in 1..(Len(derived) - 1) : mayPrecede[derived[i]][derived[i + 1]]
        /\ \A k \in 1..(Len(allIncidents) - 1) :
               uniqueCategoriesOf(Swapped(k)) = derived

\* three High labels, found in the reverse of their derived order, one of
\* them in lower case
C14_Witness ==
    /\ categoriesInOrder = << <<"V","i","o","l","e","n","t"," ","C","r","i","m","e">>,
                              <<"B","u","r","g","l","a","r","y">>,
                              <<"a","s","s","a","u","l","t">> >>
    /\ uniqueCategories = << <<"a","s","s","a","u","l","t">>,
                             <<"B","u","r","g","l","a","r","y">>,
                             <<"V","i","o","l","e","n","t"," ","C","r","i","m","e">> >>

\* the markers of the incidents Home hands to MapContent
markersOfFiltered == incidentMarkers(filteredIncidents, categoryColorMap)

\* C15: the keys of categoryColorMap are exactly the derived categories, each
\* mapped to assignColorByCategory of the label; the empty category is never a
\* key; every incident that passes the filter has its marker, and the marker
\* of one without a category has the default color #9CA3AF.
C15_ColorMapKeys ==
    LET map == categoryColorMap
        markers == markersOfFiltered
    IN  /\ DOMAIN map = LabelsIn(uniqueCategories)
        /\ \A category \in DOMAIN map : map[category] = colorOfCategory[category]
        /\ <<>> \notin DOMAIN map
        /\ Len(markers) = Len(filteredIncidents)
        /\ \A i \in 1..Len(allIncidents) :
               (/\ allIncidents[i].offense_category = <<>>
                /\ KeepIncident(allIncidents[i]))
               => \E m \in 1..Len(markers) :
                      /\ markers[m].incident = allIncidents[i]
                      /\ markers[m].backgroundColor = "#9CA3AF"

\* an incident without a category and a Violent Crime incident both pass the
\* filter; the first is drawn in the default color, the second in its own
C15_Witness ==
    LET markers == markersOfFiltered
    IN  /\ Len(markers) = 2
        /\ markers[1].incident.offense_category = <<>>
        /\ markers[1].backgroundColor = "#9CA3AF"
        /\ markers[2].backgroundColor = "#B91C1C"
        /\ DOMAIN categoryColorMap = {markers[2].incident.offense_category}

====
